---- MODULE Spec2Model ----
(***************************************************************************)
(* Model of gerber/excellon.py: the Excellon line parser ExcellonParser,   *)
(* the tool class ExcellonTool and the parse result ExcellonFile.          *)
(*                                                                         *)
(* Text is a sequence of one-character strings.  Real values are fixed     *)
(* point integers counted in units of 10^-FormatDec (1.00000 is 100000).   *)
(* Tool objects live in `heap`; a tool reference is an index into it and   *)
(* NoTool stands for Python's None.  An optional tool field is <<>> when   *)
(* absent (None) and <<v>> when set.                                       *)
(***************************************************************************)
EXTENDS Integers, Sequences, FiniteSets, TLC

\* ------------------------------------------------------------------ bounds
MaxHits == 2
MaxToolObjs == 3
MaxDocs == 1
MaxCoord == 150000
\* SpecCursor: hits recorded and tool objects created
MaxCursorHits == 2
MaxCursorTools == 1
\* Spec: tool objects created
MaxSpecTools == 2
\* SpecTools: hits recorded and tool objects created
MaxToolHits == 1
MaxTableTools == 2
\* SpecMarkers: hits recorded and tool objects created
MaxMarkerHits == 1
MaxMarkerTools == 1
\* SpecDispatch: hits recorded
MaxDispatchHits == 1

\* --------------------------------------------------------- program constants
FormatInt == 2
FormatDec == 5

NoTool == 0
None == <<>>

\* ------------------------------------------------------------------- state
VARIABLES
    ctx,               \* TRUE when a rendering context was passed to __init__
    notation, units, zero_suppression, state,
    zeros,             \* the attribute self.zeros, <<>> until a line sets it
    tools,             \* self.tools: tool number -> tool reference
    heap,              \* the ExcellonTool objects created so far
    hits,              \* self.hits: <<[tool, pos]>>, pos a reference to a position list
    active_tool,       \* self.active_tool: a tool reference or NoTool
    pos,               \* the content of the list object held by self.pos
    drills,            \* the calls ctx.drill(x, y, diameter) made so far
    docs,              \* the ExcellonFile objects returned by parse so far
    raised,            \* the exception the last _parse call ended with, or "none"
    built,             \* history: built[i] is the line and settings heap[i] was created from
    fed                \* history: how many lines of Scenario were fed, in order, since
                       \* construction; -1 once the input differs from Scenario

vars ==
    <<ctx, notation, units, zero_suppression, state, zeros, tools, heap, hits, active_tool,
      pos, drills, docs, raised, built, fed>>

\* ------------------------------------------------------------ string helpers
Range(s) == {s[i] : i \in 1..Len(s)}

Whitespace == {" ", "\n", "\t", "\r"}

DigitChars == {"0", "1", "2", "3", "4", "5", "6", "7", "8", "9"}

DigitVal(c) ==
    CASE c = "0" -> 0 [] c = "1" -> 1 [] c = "2" -> 2 [] c = "3" -> 3
      [] c = "4" -> 4 [] c = "5" -> 5 [] c = "6" -> 6 [] c = "7" -> 7
      [] c = "8" -> 8 [] c = "9" -> 9

RECURSIVE Pow10(_)
Pow10(n) == IF n = 0 THEN 1 ELSE 10 * Pow10(n - 1)

RECURSIVE DigitsToInt(_)
DigitsToInt(s) ==
    IF s = <<>> THEN 0
    ELSE 10 * DigitsToInt(SubSeq(s, 1, Len(s) - 1)) + DigitVal(s[Len(s)])

RECURSIVE PadRight(_, _)
PadRight(s, width) == IF Len(s) >= width THEN s ELSE PadRight(Append(s, "0"), width)

\* `p in s` for Python strings
Contains(s, p) ==
    \E i \in 0..(Len(s) - Len(p)) : SubSeq(s, i + 1, i + Len(p)) = p

RECURSIVE LStrip(_, _)
LStrip(s, cs) ==
    IF s # <<>> /\ Head(s) \in cs THEN LStrip(Tail(s), cs) ELSE s

RECURSIVE RStrip(_, _)
RStrip(s, cs) ==
    IF s # <<>> /\ s[Len(s)] \in cs THEN RStrip(SubSeq(s, 1, Len(s) - 1), cs) ELSE s

\* str.strip(cs); str.strip() is Strip(s, Whitespace)
Strip(s, cs) == RStrip(LStrip(s, cs), cs)

FirstIndex(s, cs) == CHOOSE i \in 1..Len(s) : s[i] \in cs /\ \A j \in 1..(i - 1) : s[j] \notin cs

\* str.split(c)
RECURSIVE Split(_, _)
Split(s, c) ==
    IF c \notin Range(s) THEN <<s>>
    ELSE LET i == FirstIndex(s, {c})
         IN  <<SubSeq(s, 1, i - 1)>> \o Split(SubSeq(s, i + 1, Len(s)), c)

\* Python int(text): surrounding whitespace, an optional sign, then digits only
ParseInt(text) ==
    LET t      == Strip(text, Whitespace)
        signed == t # <<>> /\ Head(t) \in {"-", "+"}
        body   == IF signed THEN Tail(t) ELSE t
    IN  IF body = <<>> \/ ~(Range(body) \subseteq DigitChars)
        THEN [ok |-> FALSE, val |-> 0]
        ELSE [ok |-> TRUE,
              val |-> IF signed /\ Head(t) = "-" THEN -DigitsToInt(body) ELSE DigitsToInt(body)]

\* ---------------------------------------------------------- CoordinateCodec
\* utils.parse_gerber_value(value, format, zero_suppression), format being
\* (FormatInt, FormatDec).  The result is counted in units of 10^-FormatDec.
parse_gerber_value(value, zs) ==
    LET signed  == value # <<>> /\ Head(value) \in {"-", "+"}
        sign    == IF signed /\ Head(value) = "-" THEN -1 ELSE 1
        body    == IF signed THEN Tail(value) ELSE value
        npoints == Cardinality({i \in 1..Len(body) : body[i] = "."})
        width   == FormatInt + FormatDec
        fail    == [ok |-> FALSE, val |-> 0]
    IN  IF ~(Range(body) \subseteq DigitChars \cup {"."}) \/ npoints > 1 THEN fail
        ELSE IF npoints = 1
        THEN LET p  == FirstIndex(body, {"."})
                 ip == SubSeq(body, 1, p - 1)
                 fp == SubSeq(body, p + 1, Len(body))
             IN  IF Len(ip) + Len(fp) = 0 THEN fail
                 ELSE [ok |-> TRUE,
                       val |-> sign * (DigitsToInt(ip) * Pow10(FormatDec)
                                       + DigitsToInt(SubSeq(PadRight(fp, FormatDec), 1, FormatDec)))]
        ELSE IF Len(body) > width THEN fail
        ELSE IF zs = "trailing" THEN [ok |-> TRUE, val |-> sign * DigitsToInt(PadRight(body, width))]
        ELSE IF zs = "leading" THEN [ok |-> TRUE, val |-> sign * DigitsToInt(body)]
        ELSE IF Len(body) = width THEN [ok |-> TRUE, val |-> sign * DigitsToInt(body)]
        ELSE fail

\* ------------------------------------------------------------- ExcellonTool
CmdLetters == {"B", "C", "F", "H", "S", "T", "Z"}

\* re.split('([BCFHSTZ])', line)[1:] taken pairwise: <<letter, text up to the next letter>>
RECURSIVE Commands(_)
Commands(s) ==
    IF Range(s) \cap CmdLetters = {} THEN <<>>
    ELSE LET i    == FirstIndex(s, CmdLetters)
             rest == SubSeq(s, i + 1, Len(s))
             j    == IF Range(rest) \cap CmdLetters = {} THEN Len(rest) + 1
                     ELSE FirstIndex(rest, CmdLetters)
         IN  <<[cmd |-> s[i], val |-> SubSeq(rest, 1, j - 1)]>>
                 \o Commands(SubSeq(rest, j, Len(rest)))

NoArgs ==
    [ok |-> TRUE, number |-> None, feed_rate |-> None, retract_rate |-> None, rpm |-> None,
     diameter |-> None, max_hit_count |-> None, depth_offset |-> None]

\* one round of the loop of from_line; ok = FALSE once a conversion has raised
ApplyCommand(args, c, zs) ==
    IF ~args.ok THEN args
    ELSE IF c.cmd = "T"
    THEN LET n == ParseInt(c.val)
         IN  IF n.ok THEN [args EXCEPT !.number = <<n.val>>] ELSE [args EXCEPT !.ok = FALSE]
    ELSE LET v == parse_gerber_value(c.val, zs)
         IN  IF ~v.ok THEN [args EXCEPT !.ok = FALSE]
             ELSE CASE c.cmd = "B" -> [args EXCEPT !.retract_rate = <<v.val>>]
                    [] c.cmd = "C" -> [args EXCEPT !.diameter = <<v.val>>]
                    [] c.cmd = "F" -> [args EXCEPT !.feed_rate = <<v.val>>]
                    [] c.cmd = "H" -> [args EXCEPT !.max_hit_count = <<v.val>>]
                    [] c.cmd = "S" -> [args EXCEPT !.rpm = <<1000 * v.val>>]
                    [] c.cmd = "Z" -> [args EXCEPT !.depth_offset = <<v.val>>]

RECURSIVE ApplyCommands(_, _, _)
ApplyCommands(args, cmds, zs) ==
    IF cmds = <<>> THEN args
    ELSE ApplyCommands(ApplyCommand(args, Head(cmds), zs), Tail(cmds), zs)

\* ExcellonTool.__init__(settings, **kwargs)
ExcellonTool(settings, kwargs) ==
    [number |-> kwargs.number, feed_rate |-> kwargs.feed_rate,
     retract_rate |-> kwargs.retract_rate, rpm |-> kwargs.rpm, diameter |-> kwargs.diameter,
     max_hit_count |-> kwargs.max_hit_count, depth_offset |-> kwargs.depth_offset,
     units |-> settings.units, hit_count |-> 0]

\* from_line decoding with the marker kept in self.zeros instead of the settings passed
from_line_zeros(l, settings) ==
    LET zs   == IF zeros = <<"L">> THEN "leading" ELSE settings.zero_suppression
        args == ApplyCommands(NoArgs, Commands(l), zs)
    IN  [ok |-> args.ok, tool |-> ExcellonTool(settings, args)]

\* ExcellonTool.from_line(line, settings); ok = FALSE when it raises
from_line(l, settings) ==
    LET args == ApplyCommands(NoArgs, Commands(l), settings.zero_suppression)
    IN  [ok |-> args.ok, tool |-> ExcellonTool(settings, args)]

\* ExcellonTool._hit()
_hit(tool) == [tool EXCEPT !.hit_count = @ + 1]

\* ------------------------------------------------------------------- input
M48Line      == <<"M", "4", "8">>
ToolDefLine  == <<"T", "0", "1", "C", "0", ".", "0", "1", "0", "0">>
ToolDef2Line == <<"T", "0", "2", "C", "0", "2">>
PercentLine  == <<"%">>
G05Line      == <<"G", "0", "5">>
G00Line      == <<"G", "0", "0">>
T01Line      == <<"T", "0", "1">>
T02Line      == <<"T", "0", "2">>
XYLine       == <<"X", "0", "1", "0", "0", "0", "0", "Y", "0", "1", "0", "0", "0", "0">>
XLine        == <<"X", "0", "0", "5">>
YLine        == <<"Y", "0", "0", "5">>
YXLine       == <<"Y", "0", "0", "5", "X", "0", "0", "5">>
G91Line      == <<"G", "9", "1">>
MetricLine   == <<"M", "E", "T", "R", "I", "C">>
LZLine       == <<"I", "N", "C", "H", ",", "L", "Z">>
TZLine       == <<"M", "E", "T", "R", "I", "C", ",", "T", "Z">>
InchMetricLine == <<"I", "N", "C", "H", ",", "M", "E", "T", "R", "I", "C">>
M48G00Line   == <<"M", "4", "8", "G", "0", "0">>
G00G05Line   == <<"G", "0", "0", "G", "0", "5">>
G90Line      == <<"G", "9", "0", "\n">>
IciOnLine    == <<"I", "C", "I", ",", "O", "N">>
IciOffLine   == <<"I", "C", "I", ",", "O", "F", "F">>
T01G05Line   == <<"T", "0", "1", "T", "G", "0", "5">>

\* the end-to-end scenario of the specification plus an X-only line
Lines == {M48Line, ToolDefLine, PercentLine, G05Line, T01Line, XYLine, XLine}

\* lines for the cursor: both notations, each axis alone, a line that does not decode
CursorLines == {M48Line, T01Line, G05Line, G00Line, G91Line, XYLine, XLine, YLine, YXLine}

\* lines for the tool table: two tool numbers, both units, the LZ marker
ToolLines ==
    {M48Line, ToolDef2Line, PercentLine, T01Line, T02Line, MetricLine, LZLine, XYLine}

\* lines for the markers: every phase, unit, zero and notation marker, lines on which
\* two markers of one concern meet, one T line and one coordinate line; G00 comes with
\* another phase marker only
MarkerLines ==
    {M48Line, G05Line, PercentLine, M48G00Line, G00G05Line, LZLine, TZLine,
     InchMetricLine, G90Line, G91Line, IciOnLine, IciOffLine, T01Line, XLine}

\* lines for the dispatch of T lines and coordinate lines on the phase: two tool numbers,
\* both notations, and every phase, DRILL being entered by a T line that carries G05
DispatchLines ==
    {M48Line, G00Line, T01Line, T02Line, T01G05Line, G91Line, XLine}

\* the end-to-end scenario of the specification, in order
Scenario == <<M48Line, ToolDefLine, PercentLine, G05Line, T01Line, XYLine>>

\* ----------------------------------------------------------- ExcellonParser
\* the list object self.pos: hits and the parser refer to it, `pos` is its content
SelfPos == [ref |-> "self.pos"]
\* the dict object self.tools and the list object self.hits
SelfTools == [ref |-> "self.tools"]
SelfHits == [ref |-> "self.hits"]

\* the position a hit shows when it is read
HitPosition(h) == IF "ref" \in DOMAIN h.pos THEN pos ELSE h.pos.val

\* ExcellonParser.__init__(ctx)
Init ==
    /\ ctx \in BOOLEAN
    /\ notation = "absolute"
    /\ units = "inch"
    /\ zero_suppression = "trailing"
    /\ state = "INIT"
    /\ zeros = None
    /\ tools = [n \in {} |-> NoTool]
    /\ heap = <<>>
    /\ hits = <<>>
    /\ active_tool = NoTool
    /\ pos = <<0, 0>>
    /\ drills = <<>>
    /\ docs = <<>>
    /\ raised = "none"
    /\ built = <<>>
    /\ fed = 0

\* ExcellonParser._settings() for the given attribute values
_settings(un, zs, nt) ==
    [units |-> un, format |-> <<FormatInt, FormatDec>>, zero_suppression |-> zs, notation |-> nt]

\* the phase markers of _parse
StateAfter(l, st) ==
    LET s1 == IF Contains(l, M48Line) THEN "HEADER" ELSE st
        s2 == IF Contains(l, G00Line) THEN "ROUT" ELSE s1
    IN  IF Contains(l, G05Line) THEN "DRILL"
        ELSE IF Head(l) = "%" /\ s2 = "HEADER" THEN "DRILL"
        ELSE s2

\* the unit markers as two independent checks: the later matching one assigns last
UnitsAfterLast(l, un) ==
    IF Contains(l, <<"M", "E", "T", "R", "I", "C">>) \/ Strip(l, Whitespace) = <<"M", "7", "1">>
    THEN "metric"
    ELSE IF Contains(l, <<"I", "N", "C", "H">>) \/ Strip(l, Whitespace) = <<"M", "7", "2">>
    THEN "inch"
    ELSE un

\* the unit markers of _parse
UnitsAfter(l, un) ==
    IF Contains(l, <<"I", "N", "C", "H">>) \/ Strip(l, Whitespace) = <<"M", "7", "2">> THEN "inch"
    ELSE IF Contains(l, <<"M", "E", "T", "R", "I", "C">>) \/ Strip(l, Whitespace) = <<"M", "7", "1">>
    THEN "metric"
    ELSE un

\* the zero markers of _parse, which assign self.zeros
ZerosAfter(l, zr) ==
    IF Contains(l, <<"L", "Z">>) THEN <<"L">>
    ELSE IF Contains(l, <<"T", "Z">>) THEN <<"T">>
    ELSE zr

\* the notation markers with ICI OFF and G90 assigning 'absolute'
NotationAfterOff(l, nt) ==
    LET n1 == IF (Contains(l, <<"I", "C", "I">>) /\ Contains(l, <<"O", "N">>))
                 \/ Strip(l, Whitespace) = <<"G", "9", "1">>
              THEN "incremental" ELSE nt
    IN  IF (Contains(l, <<"I", "C", "I">>) /\ Contains(l, <<"O", "F", "F">>))
           \/ Strip(l, Whitespace) = <<"G", "9", "0">>
        THEN "absolute" ELSE n1

\* the notation markers of _parse
NotationAfter(l, nt) ==
    LET n1 == IF (Contains(l, <<"I", "C", "I">>) /\ Contains(l, <<"O", "N">>))
                 \/ Strip(l, Whitespace) = <<"G", "9", "1">>
              THEN "incremental" ELSE nt
    IN  IF (Contains(l, <<"I", "C", "I">>) /\ Contains(l, <<"O", "F", "F">>))
           \/ Strip(l, Whitespace) = <<"G", "9", "0">>
        THEN "incremental" ELSE n1

\* history: the position in Scenario after line l was fed
FedAfter(l) == IF fed >= 0 /\ fed < Len(Scenario) /\ Scenario[fed + 1] = l THEN fed + 1 ELSE -1

\* the part of _parse every line goes through: the marker checks
Markers(l) ==
    /\ state' = StateAfter(l, state)
    /\ units' = UnitsAfter(l, units)
    /\ zeros' = ZerosAfter(l, zeros)
    /\ notation' = NotationAfter(l, notation)
    /\ fed' = FedAfter(l)
    /\ UNCHANGED <<ctx, zero_suppression>>

\* a T line dispatched on the phase st the line was met in, not the one its markers set
HeaderDispatchBefore(l, st) == st = "HEADER"

\* self.state == 'HEADER' as the T dispatch reads it, after the markers of line l
HeaderDispatch(l, st) == StateAfter(l, st) = "HEADER"

\* self.tools.setdefault(n, tool) in place of the assignment: the first entry is kept
InsertToolKeepFirst(tbl, n, ref) == tbl @@ (n :> ref)

\* self.tools[n] = tool
InsertTool(tbl, n, ref) == (n :> ref) @@ tbl

\* _parse(l), a line starting with T while the phase is HEADER: tool definition
ToolDefinition(l) ==
    /\ Head(l) = "T"
    /\ HeaderDispatch(l, state)
    /\ Markers(l)
    /\ LET settings == _settings(UnitsAfter(l, units), zero_suppression, NotationAfter(l, notation))
           r        == from_line(l, settings)
       IN  IF r.ok
           THEN /\ Len(heap) < MaxToolObjs
                /\ heap' = Append(heap, r.tool)
                /\ tools' = InsertTool(tools, r.tool.number[1], Len(heap) + 1)
                /\ built' = Append(built, [line |-> l, settings |-> settings])
                /\ raised' = "none"
           ELSE /\ raised' = "ValueError"
                /\ UNCHANGED <<heap, tools, built>>
    /\ UNCHANGED <<hits, active_tool, pos, drills, docs>>

\* self.tools.get(n) in place of the subscript: None for a missing key, never KeyError
LookupToolGet(tbl, n) ==
    [ok |-> TRUE, tool |-> IF n \in DOMAIN tbl THEN tbl[n] ELSE NoTool]

\* self.tools[n]; ok = FALSE when the subscript raises KeyError
LookupTool(tbl, n) ==
    IF n \in DOMAIN tbl THEN [ok |-> TRUE, tool |-> tbl[n]] ELSE [ok |-> FALSE, tool |-> NoTool]

\* int(line.strip().split('T')[1]); ok = FALSE when int raises ValueError
SelectedNumber(l) == ParseInt(Split(Strip(l, Whitespace), "T")[2])

\* _parse(l), a line starting with T while the phase is not HEADER: tool selection
ToolSelection(l) ==
    /\ Head(l) = "T"
    /\ ~HeaderDispatch(l, state)
    /\ Markers(l)
    /\ LET n == SelectedNumber(l)
           r == LookupTool(tools, n.val)
       IN  IF ~n.ok THEN raised' = "ValueError" /\ UNCHANGED active_tool
           ELSE IF ~r.ok THEN raised' = "KeyError" /\ UNCHANGED active_tool
           ELSE raised' = "none" /\ active_tool' = r.tool
    /\ UNCHANGED <<tools, heap, built, hits, pos, drills, docs>>

\* Axes with the Y part of an X line never read
AxesXOnly(l, zs) ==
    IF Head(l) = "X"
    THEN LET splitline == Split(Strip(l, {"X"}), "Y")
             x == parse_gerber_value(Strip(splitline[1], Whitespace), zs)
         IN  [ok |-> x.ok, x |-> <<x.val>>, y |-> None]
    ELSE LET y == parse_gerber_value(Strip(l, {" ", "Y"}), zs)
         IN  [ok |-> y.ok, x |-> None, y |-> <<y.val>>]

\* the axis values of a coordinate line: x and y are <<>> when absent;
\* ok = FALSE when a conversion raises
Axes(l, zs) ==
    IF Head(l) = "X"
    THEN LET splitline == Split(Strip(l, {"X"}), "Y")
             x == parse_gerber_value(Strip(splitline[1], Whitespace), zs)
             y == IF Len(splitline) = 2
                  THEN parse_gerber_value(Strip(splitline[2], Whitespace), zs)
                  ELSE [ok |-> TRUE, val |-> 0]
         IN  [ok |-> x.ok /\ y.ok, x |-> <<x.val>>,
              y |-> IF Len(splitline) = 2 THEN <<y.val>> ELSE None]
    ELSE LET y == parse_gerber_value(Strip(l, {" ", "Y"}), zs)
         IN  [ok |-> y.ok, x |-> None, y |-> <<y.val>>]

\* MoveCursor overwriting in both notations
MoveCursorOverwrite(p, ax, nt) ==
    <<IF ax.x # None THEN ax.x[1] ELSE p[1], IF ax.y # None THEN ax.y[1] ELSE p[2]>>

\* the cursor after a coordinate line with axis values ax under notation nt
MoveCursor(p, ax, nt) ==
    IF nt = "absolute"
    THEN <<IF ax.x # None THEN ax.x[1] ELSE p[1], IF ax.y # None THEN ax.y[1] ELSE p[2]>>
    ELSE <<IF ax.x # None THEN p[1] + ax.x[1] ELSE p[1], IF ax.y # None THEN p[2] + ax.y[1] ELSE p[2]>>

\* self.hits.insert(0, ...) in place of append
PrependHit(hs, tool) == <<[tool |-> tool, pos |-> SelfPos]>> \o hs

\* self.hits.append((self.active_tool, self.pos))
AppendHit(hs, tool) == Append(hs, [tool |-> tool, pos |-> SelfPos])

Abs(n) == IF n < 0 THEN -n ELSE n

\* hits recorded in ROUT phase as well
DrillingOrRout(st) == st \in {"DRILL", "ROUT"}

\* self.state == 'DRILL' as the coordinate branch reads it
Drilling(st) == st = "DRILL"

\* _parse(l), a line starting with X or Y: coordinate line
CoordinateLine(l) ==
    /\ Head(l) \in {"X", "Y"}
    /\ Markers(l)
    /\ LET ax == Axes(l, zero_suppression)
           st == StateAfter(l, state)
           np == MoveCursor(pos, ax, NotationAfter(l, notation))
       IN  IF ~ax.ok
           THEN raised' = "ValueError" /\ UNCHANGED <<pos, hits, heap, drills>>
           ELSE /\ Abs(np[1]) <= MaxCoord /\ Abs(np[2]) <= MaxCoord
                /\ pos' = np
                /\ IF Drilling(st)
                   THEN /\ Len(hits) < MaxHits
                        /\ hits' = AppendHit(hits, active_tool)
                        /\ IF active_tool = NoTool
                           THEN raised' = "AttributeError" /\ UNCHANGED <<heap, drills>>
                           ELSE /\ heap' = [heap EXCEPT ![active_tool] = _hit(@)]
                                /\ drills' = IF ctx
                                             THEN Append(drills, <<np[1], np[2], heap[active_tool].diameter>>)
                                             ELSE drills
                                /\ raised' = "none"
                   ELSE raised' = "none" /\ UNCHANGED <<hits, heap, drills>>
    /\ UNCHANGED <<tools, active_tool, built, docs>>

\* _parse(l), any other line: only the markers act
OtherLine(l) ==
    /\ Head(l) \notin {"T", "X", "Y"}
    /\ Markers(l)
    /\ raised' = "none"
    /\ UNCHANGED <<tools, heap, built, hits, active_tool, pos, drills, docs>>

\* the return statement of parse: ExcellonFile(self.tools, self.hits, self._settings(), filename)
ParseReturn ==
    /\ Len(docs) < MaxDocs
    /\ docs' = Append(docs, [tools |-> SelfTools, hits |-> SelfHits,
                             settings |-> _settings(units, zero_suppression, notation)])
    /\ UNCHANGED <<ctx, notation, units, zero_suppression, state, zeros, tools, heap, hits,
                   active_tool, pos, drills, raised, built, fed>>

\* one call _parse(l)
ParseStep(l) == ToolDefinition(l) \/ ToolSelection(l) \/ CoordinateLine(l) \/ OtherLine(l)

\* the parser fed lines of Lines, and parse's return
Next ==
    \/ \E l \in Lines : ToolDefinition(l) /\ Len(heap') <= MaxSpecTools
    \/ \E l \in Lines : ToolSelection(l)
    \/ \E l \in Lines : CoordinateLine(l)
    \/ \E l \in Lines : OtherLine(l)
    \/ ParseReturn

Spec == Init /\ [][Next]_vars

\* ExcellonParser(): no rendering context
InitNoCtx == Init /\ ctx = FALSE

\* the parser fed lines of CursorLines, no document returned
NextCursor ==
    \/ \E l \in CursorLines : ToolDefinition(l) /\ Len(heap') <= MaxCursorTools
    \/ \E l \in CursorLines : ToolSelection(l)
    \/ \E l \in CursorLines : CoordinateLine(l) /\ Len(hits') <= MaxCursorHits
    \/ \E l \in CursorLines : OtherLine(l)

SpecCursor == InitNoCtx /\ [][NextCursor]_vars

\* the parser fed lines of ToolLines, no document returned
NextTools ==
    \/ \E l \in ToolLines : ToolDefinition(l) /\ Len(heap') <= MaxTableTools
    \/ \E l \in ToolLines : ToolSelection(l)
    \/ \E l \in ToolLines : CoordinateLine(l) /\ Len(hits') <= MaxToolHits
    \/ \E l \in ToolLines : OtherLine(l)

SpecTools == InitNoCtx /\ [][NextTools]_vars

\* the parser fed lines of MarkerLines, no document returned
NextMarkers ==
    \/ \E l \in MarkerLines : ToolDefinition(l) /\ Len(heap') <= MaxMarkerTools
    \/ \E l \in MarkerLines : ToolSelection(l)
    \/ \E l \in MarkerLines : CoordinateLine(l) /\ Len(hits') <= MaxMarkerHits
    \/ \E l \in MarkerLines : OtherLine(l)

SpecMarkers == InitNoCtx /\ [][NextMarkers]_vars

\* the parser fed lines of DispatchLines, with or without a rendering context, no
\* document returned
NextDispatch ==
    \/ \E l \in DispatchLines : ToolDefinition(l)
    \/ \E l \in DispatchLines : ToolSelection(l)
    \/ \E l \in DispatchLines : CoordinateLine(l) /\ Len(hits') <= MaxDispatchHits
    \/ \E l \in DispatchLines : OtherLine(l)

SpecDispatch == Init /\ [][NextDispatch]_vars

\* the tool table an ExcellonFile shows when it is read: number -> tool object
DocTools(d) ==
    IF "ref" \in DOMAIN d.tools THEN [n \in DOMAIN tools |-> heap[tools[n]]] ELSE d.tools.val

\* the hits an ExcellonFile shows when it is read: <<tool number, position>> in order
DocHits(d) ==
    IF "ref" \in DOMAIN d.hits
    THEN [i \in 1..Len(hits) |->
             <<IF hits[i].tool = NoTool THEN None ELSE heap[hits[i].tool].number, HitPosition(hits[i])>>]
    ELSE d.hits.val

TypeOK ==
    /\ state \in {"INIT", "HEADER", "ROUT", "DRILL"}
    /\ units \in {"inch", "metric"}
    /\ notation \in {"absolute", "incremental"}
    /\ active_tool \in 0..Len(heap)
    /\ Len(hits) <= MaxHits
    /\ Len(heap) <= MaxToolObjs
    /\ \A n \in DOMAIN tools : tools[n] \in 1..Len(heap)

\* ------------------------------------------------------------------ claims

\* C1: the position of every hit made with a tool is the cursor value of the line that
\* recorded it, and the hit keeps that position when a later line moves the cursor.
C1_HitHoldsCopy ==
    [][/\ (Len(hits') = Len(hits) + 1 /\ active_tool # NoTool)
              => HitPosition(hits[Len(hits)])' = pos'
       /\ \A i \in 1..Len(hits) :
              hits[i].tool # NoTool => HitPosition(hits[i])' = HitPosition(hits[i])]_vars

\* the tool number a hit is attributed to, <<>> for a hit without a tool
HitNumber(h) == IF h.tool = NoTool THEN None ELSE heap[h.tool].number

\* C2: every tool of the tool table has a hit_count equal to the number of hits
\* attributed to its tool number.
C2_HitCountMatchesHits ==
    \A n \in DOMAIN tools :
        heap[tools[n]].hit_count = Cardinality({i \in 1..Len(hits) : HitNumber(hits[i]) = <<n>>})

\* C3: a coordinate line processed in DRILL phase with a tool active appends exactly one
\* hit, of the active tool, at the end; no step removes or reorders recorded hits.
C3_HitsAppendOnly ==
    [][/\ Len(hits') >= Len(hits)
       /\ SubSeq(hits', 1, Len(hits)) = hits
       /\ \A l \in Lines :
             (CoordinateLine(l) /\ state' = "DRILL" /\ active_tool # NoTool)
                 => (Len(hits') = Len(hits) + 1 /\ hits'[Len(hits')].tool = active_tool)]_vars

C3_Witness ==
    /\ Len(hits) = MaxHits
    /\ \A i \in 1..Len(hits) : hits[i].tool # NoTool
    /\ \E i, j \in 1..Len(hits) : hits[i].tool # hits[j].tool

\* the result of the scenario with the one hit at position p
ScenarioResult(p) ==
    /\ DOMAIN tools = {1}
    /\ heap[tools[1]].number = <<1>>
    /\ heap[tools[1]].diameter = <<1000>>
    /\ Len(hits) = 1
    /\ hits[1].tool = tools[1]
    /\ HitPosition(hits[1]) = p

\* C4 as amended: a fresh parser fed the six lines of the scenario holds exactly tool 1
\* with diameter 0.0100 and exactly one hit, of tool 1, at (1.00000, 1.00000).
C4_ScenarioResult == fed = Len(Scenario) => ScenarioResult(<<100000, 100000>>)

C4_Witness == fed = Len(Scenario) /\ raised = "none"

\* C4 as claimed: the one hit of the scenario is at (10.00000, 10.00000).
C4_ScenarioResultAsClaimed == fed = Len(Scenario) => ScenarioResult(<<1000000, 1000000>>)

\* C5: a coordinate line in DRILL phase with no tool active ends in an error and leaves
\* the hit sequence as it was; no hit of the sequence is without a tool.
C5_NoToolNoHit ==
    [][/\ \A l \in Lines :
             (CoordinateLine(l) /\ state' = "DRILL" /\ active_tool = NoTool)
                 => (raised' # "none" /\ hits' = hits)
       /\ \A i \in 1..Len(hits') : hits'[i].tool # NoTool]_vars

\* C6: a tool selection whose number is not a key of the tool table ends in KeyError and
\* leaves the active tool, the tool table, the tools and the hit sequence as they were.
C6_UnknownToolSelection ==
    [][\A l \in ToolLines :
          (ToolSelection(l) /\ SelectedNumber(l).ok /\ SelectedNumber(l).val \notin DOMAIN tools)
              => (raised' = "KeyError" /\ UNCHANGED <<active_tool, tools, heap, hits>>)]_vars

C6_Witness == raised = "KeyError" /\ active_tool # NoTool /\ state = "DRILL"

\* the cursor component after a coordinate step: old before, new after, v the decoded
\* value of the axis, <<>> when the line does not name the axis
AxisMoved(old, new, v, nt) ==
    /\ (v # None /\ nt = "absolute") => new = v[1]
    /\ (v # None /\ nt = "incremental") => new = old + v[1]
    /\ v = None => new = old

\* C7: on a coordinate line an axis present overwrites its cursor component under absolute
\* notation and is added to it under incremental notation; an absent axis leaves its
\* component unchanged.
C7_CursorUpdate ==
    [][\A l \in CursorLines :
          (CoordinateLine(l) /\ Axes(l, zero_suppression).ok)
              => LET ax == Axes(l, zero_suppression)
                 IN  /\ ("X" \in Range(l)) = (ax.x # None)
                     /\ ("Y" \in Range(l)) = (ax.y # None)
                     /\ AxisMoved(pos[1], pos'[1], ax.x, notation')
                     /\ AxisMoved(pos[2], pos'[2], ax.y, notation')]_vars

C7_Witness == notation = "incremental" /\ pos = <<150000, 50000>>

\* C8: the tool table and the hit sequence of a returned document do not change under
\* any later operation on the parser.
C8_DocumentFrozen ==
    [][\A d \in 1..Len(docs) :
          /\ DocTools(docs[d])' = DocTools(docs[d])
          /\ DocHits(docs[d])' = DocHits(docs[d])]_vars

\* C9: with a rendering context attached, ctx.drill was called once per hit, in hit
\* order, with the position and the tool diameter of that hit.
C9_SinkMatchesHits ==
    ctx => /\ Len(drills) = Len(hits)
           /\ \A i \in 1..Len(hits) :
                 /\ hits[i].tool # NoTool
                 /\ drills[i] = <<HitPosition(hits[i])[1], HitPosition(hits[i])[2],
                                  heap[hits[i].tool].diameter>>

\* the fields of a tool other than hit_count
Fields(tool) == [tool EXCEPT !.hit_count = 0]

ZeroDirective(l) == ZerosAfter(l, None)

\* C11: a line with LZ or TZ sets the zero_suppression of the parser settings to the
\* value of that directive, so a line whose directive differs from the last one met
\* changes zero_suppression, the value later tokens are decoded with and the settings
\* snapshot reports.
C11_ZeroDirectiveUpdates ==
    [][\A l \in MarkerLines :
          ParseStep(l) /\ ZeroDirective(l) # None /\ zeros # None
                       /\ ZeroDirective(l) # zeros
              => /\ zero_suppression' # zero_suppression
                 /\ _settings(units', zero_suppression', notation').zero_suppression
                        # _settings(units, zero_suppression, notation).zero_suppression]_vars

\* C12: the phase changes only along INIT -> HEADER on a line with M48, HEADER -> DRILL
\* on a line whose first character is %, any phase -> ROUT on a line with G00 and any
\* phase -> DRILL on a line with G05; so HEADER is entered only from INIT and INIT is
\* never entered again.
C12_PhaseTransitions ==
    [][\A l \in MarkerLines :
          ParseStep(l) /\ state' # state
              => /\ \/ state = "INIT" /\ state' = "HEADER" /\ Contains(l, M48Line)
                    \/ state = "HEADER" /\ state' = "DRILL" /\ Head(l) = "%"
                    \/ state' = "ROUT" /\ Contains(l, G00Line)
                    \/ state' = "DRILL" /\ Contains(l, G05Line)
                 /\ state' = "HEADER" => state = "INIT"
                 /\ state' # "INIT"]_vars

\* C13: a T line is dispatched on the phase in effect after that line's own markers.
\* In HEADER it is a tool definition: the tool built from the line is inserted in the
\* table under its number, the other entries and the active tool stay as they are. In
\* any other phase it is a tool selection: the active tool becomes the table entry of
\* the line's number, the table and the tools stay as they are.
C13_TLineDispatch ==
    [][\A l \in DispatchLines :
          ParseStep(l) /\ Head(l) = "T"
              => IF state' = "HEADER"
                 THEN /\ active_tool' = active_tool
                      /\ LET r == from_line(l, _settings(units', zero_suppression', notation'))
                         IN  r.ok =>
                               /\ heap' = Append(heap, r.tool)
                               /\ DOMAIN tools' = DOMAIN tools \cup {r.tool.number[1]}
                               /\ tools'[r.tool.number[1]] = Len(heap')
                               /\ \A m \in DOMAIN tools \ {r.tool.number[1]} :
                                     tools'[m] = tools[m]
                 ELSE /\ tools' = tools
                      /\ heap' = heap
                      /\ LET n == SelectedNumber(l)
                         IN  n.ok /\ n.val \in DOMAIN tools
                                => active_tool' = tools[n.val]]_vars

\* two tools defined in HEADER, then tool 1 selected by the line that set DRILL itself
C13_Witness ==
    /\ Cardinality(DOMAIN tools) = 2
    /\ state = "DRILL"
    /\ active_tool = tools[1]
    /\ hits = <<>>
    /\ raised = "none"

\* C14: a coordinate line processed in a phase other than DRILL moves the cursor by the
\* notation in effect (an absent axis keeps its component) and leaves the hit sequence,
\* every tool with its hit_count, the active tool and the calls made to the rendering
\* context as they were.
C14_NoHitOutsideDrill ==
    [][\A l \in DispatchLines :
          ParseStep(l) /\ Head(l) \in {"X", "Y"} /\ state' # "DRILL"
              => /\ hits' = hits
                 /\ heap' = heap
                 /\ tools' = tools
                 /\ active_tool' = active_tool
                 /\ drills' = drills
                 /\ LET ax == Axes(l, zero_suppression')
                    IN  ax.ok =>
                          \A i \in 1..2 :
                              LET a == IF i = 1 THEN ax.x ELSE ax.y
                              IN  pos'[i] = IF a = None THEN pos[i]
                                            ELSE IF notation' = "absolute" THEN a[1]
                                            ELSE pos[i] + a[1]]_vars

\* the cursor moved twice by X005 in ROUT, in incremental notation, with a tool active
\* and a rendering context attached: no hit, no count, no call
C14_Witness ==
    /\ state = "ROUT"
    /\ notation = "incremental"
    /\ pos = <<100000, 0>>
    /\ active_tool # NoTool
    /\ heap[active_tool].hit_count = 0
    /\ hits = <<>>
    /\ ctx
    /\ drills = <<>>
    /\ raised = "none"

\* a line that matches a form of the incremental directive: ICI with ON, ICI with OFF,
\* or exactly G91 or G90 once trimmed
IncrementalDirective(l) ==
    \/ Contains(l, <<"I", "C", "I">>) /\ Contains(l, <<"O", "N">>)
    \/ Contains(l, <<"I", "C", "I">>) /\ Contains(l, <<"O", "F", "F">>)
    \/ Strip(l, Whitespace) \in {<<"G", "9", "1">>, <<"G", "9", "0">>}

\* C15: after a line that matches either form of the incremental directive (ICI with
\* ON, ICI with OFF, G91 or G90 once trimmed) the notation is incremental.
C15_DirectiveSetsIncremental ==
    [][\A l \in MarkerLines :
          ParseStep(l) /\ IncrementalDirective(l) => notation' = "incremental"]_vars

\* incremental set by a directive met before any phase marker
C15_Witness == notation = "incremental" /\ state = "INIT" /\ raised = "none"

\* the two unit checks of _parse, each taken alone
InchMatch(l) == Contains(l, <<"I", "N", "C", "H">>) \/ Strip(l, Whitespace) = <<"M", "7", "2">>

MetricMatch(l) ==
    Contains(l, <<"M", "E", "T", "R", "I", "C">>) \/ Strip(l, Whitespace) = <<"M", "7", "1">>

\* the phase part of C16: of the phase markers that match a line, the last in check
\* order gives the phase
LastPhaseMarkerWins(l) ==
    /\ Contains(l, M48Line) /\ Contains(l, G00Line) /\ ~Contains(l, G05Line) => state' = "ROUT"
    /\ Contains(l, G00Line) /\ Contains(l, G05Line) => state' = "DRILL"

\* C16 as amended: when several phase markers match one line the last matching check
\* gives the phase (M48 with G00 ends in ROUT, G00 with G05 ends in DRILL); the two
\* unit checks are alternatives, so when both match one line the first, INCH/M72,
\* gives the recorded unit.
C16_LastPhaseFirstUnit ==
    [][\A l \in MarkerLines :
          ParseStep(l) => /\ LastPhaseMarkerWins(l)
                          /\ InchMatch(l) /\ MetricMatch(l) => units' = "inch"]_vars

\* ROUT can only come from the line with M48 and G00; inch with the T directive
\* recorded can only come from the line with INCH and METRIC fed after "METRIC,TZ"
C16_Witness == state = "ROUT" /\ units = "inch" /\ zeros = <<"T">>

\* C16 as stated: when several markers of one concern match one line, the last
\* matching check in order gives the result: M48 with G00 ends in ROUT, G00 with G05
\* ends in DRILL, and of the unit checks INCH/M72 then METRIC/M71 the later one that
\* matches gives the recorded unit.
C16_LastMatchWins ==
    [][\A l \in MarkerLines :
          ParseStep(l) => /\ LastPhaseMarkerWins(l)
                          /\ InchMatch(l) /\ MetricMatch(l) => units' = "metric"]_vars

\* C17: a tool-definition line in HEADER whose number is already a key of the tool
\* table does not fail: the table keeps one entry for that number, that entry is the
\* tool built from the later line, with hit_count 0, and every other entry and the tool
\* it holds stay as they were.
C17_RedefinitionOverwrites ==
    [][\A l \in DispatchLines :
          LET r == from_line(l, _settings(units', zero_suppression', notation'))
          IN  /\ ParseStep(l) /\ Head(l) = "T" /\ state' = "HEADER"
              /\ r.ok /\ r.tool.number[1] \in DOMAIN tools
              => /\ raised' = "none"
                 /\ DOMAIN tools' = DOMAIN tools
                 /\ tools'[r.tool.number[1]] = Len(heap) + 1
                 /\ Len(heap') = Len(heap) + 1
                 /\ heap'[tools'[r.tool.number[1]]] = r.tool
                 /\ r.tool.hit_count = 0
                 /\ \A m \in DOMAIN tools \ {r.tool.number[1]} :
                       /\ tools'[m] = tools[m]
                       /\ heap'[tools'[m]] = heap[tools[m]]]_vars

\* tool 1 defined, hit once, then defined again with tool 2 in the table: entry 1 is
\* the third tool object, with no hit, entry 2 is still the second
C17_Witness ==
    /\ Len(heap) = 3
    /\ DOMAIN tools = {1, 2}
    /\ tools[1] = 3 /\ tools[2] = 2
    /\ heap[1].number = <<1>> /\ heap[1].hit_count = 1
    /\ heap[3].number = <<1>> /\ heap[3].hit_count = 0
    /\ raised = "none"

\* C18: in every reachable state with an active tool, the active tool is the tool the
\* table holds under the active tool's own number, the same object with the same hit
\* counter, so a hit counts on a tool of the final table.
C18_ActiveToolInTable ==
    active_tool # NoTool =>
        /\ heap[active_tool].number[1] \in DOMAIN tools
        /\ tools[heap[active_tool].number[1]] = active_tool

\* C19: the notation is monotone over a parse: it starts as absolute, and once it is
\* incremental no line, G90 and ICI OFF included, returns it to absolute.
C19_NotationMonotone ==
    /\ notation = "absolute"
    /\ [][notation = "incremental" => notation' = "incremental"]_vars

\* incremental kept through later lines: a phase marker, a tool definition, a hit
C19_Witness ==
    /\ notation = "incremental"
    /\ state = "DRILL"
    /\ Len(heap) = 1
    /\ Len(hits) = 1

====
